---- MODULE Spec2Model ----
(***************************************************************************)
(* Model of the K&R circular free-list allocator of src/allocator/knr.c    *)
(* (the mmap-backed draft, lines 1-218) and of the alignment arithmetic    *)
(* of src/core/memory.c it depends on.                                     *)
(*                                                                         *)
(* Addresses are byte addresses.  The machine word is scaled down to       *)
(* WordBits bits and the page to PageUnits headers, so that the whole      *)
(* address space can be enumerated; every size_t / uintptr_t operation is  *)
(* reduced modulo 2^WordBits.                                              *)
(***************************************************************************)
EXTENDS Integers, Sequences, FiniteSets, TLC

(* ------------------------------ bounds --------------------------------- *)
WordBits == 10
PageUnits == 4
NumPages == 3
MaxOps == 7
DocSlots == 7
MaxBytes == 2
HEAP_WORDS == 6

(* ---------------------------- constants -------------------------------- *)
Word == 2 ^ WordBits
SIZE_MAX == Word - 1
NULL == 0
HEADER_SIZE == 16
MEMORY_ALIGNMENT == 16
PAGE_SIZE == PageUnits * HEADER_SIZE
(* the RAM ceilings keep their order (floor < reserve < fallback < word)   *)
(* on the scaled word: 16 MiB, 1 GiB and 4 GiB of a 64-bit size_t          *)
DSA_FALLBACK_MAX_RAM == Word \div 2
DSA_RAM_RESERVE == Word \div 4
MIN_MAX_RAM == Word \div 16

Pages == 1 .. NumPages
PageAddr(p) == p * PAGE_SIZE
PageOf(a) == a \div PAGE_SIZE

(* Places the linker can give the static sentinel: below every mappable    *)
(* page, at the very start of a page that follows a mappable one, or       *)
(* further inside that page.                                               *)
BaseChoices == {PageAddr(1) + HEADER_SIZE, PageAddr(3), PageAddr(3) + HEADER_SIZE}

(* sysconf(_SC_PHYS_PAGES) results offered to system_max_ram *)
PhysPagesChoices == {-1, 3}

(* request sizes offered to malloc *)
Sizes == {0, 1, 17, 33, MIN_MAX_RAM + 1, SIZE_MAX}

(* ------------------------- alignment arithmetic ------------------------ *)
RECURSIVE BitAnd(_, _)
BitAnd(x, y) ==
    IF x = 0 \/ y = 0 THEN 0
    ELSE (x % 2) * (y % 2) + 2 * BitAnd(x \div 2, y \div 2)

BitNot(x) == SIZE_MAX - x

(* the single-bit test without the test for zero *)
memory_is_power_of_two_any(value) == 0 = BitAnd(value, (value - 1) % Word)

memory_is_power_of_two(value) ==
    (0 # value) /\ (0 = BitAnd(value, (value - 1) % Word))

memory_align_up(value, alignment) ==
    BitAnd((value + alignment - 1) % Word, BitNot((alignment - 1) % Word))

memory_aligned_size(size, alignment) == memory_align_up(size, alignment)

memory_alignment_offset(value, alignment) == BitAnd(value, (alignment - 1) % Word)

(* align_down with the mask ~alignment in place of ~(alignment - 1) *)
memory_align_down_bit(value, alignment) == BitAnd(value, BitNot(alignment % Word))

memory_align_down(value, alignment) == BitAnd(value, BitNot((alignment - 1) % Word))

(* the offset into the alignment unit, returned as if it were the padding *)
memory_padding_needed_offset(address, alignment) ==
    memory_alignment_offset(address, alignment)

memory_padding_needed(address, alignment) ==
    LET offset == memory_alignment_offset(address, alignment)
    IN  IF 0 # offset THEN (alignment - offset) % Word ELSE 0

(* declared as memory_align_unit_count in core/memory.h *)
memory_object_count(nbytes, nsize, alignment) ==
    LET aligned_size == memory_align_up(nbytes, alignment)
    IN  ((aligned_size + nsize - 1) % Word) \div nsize

(* arguments offered to the alignment functions *)
Values == 0 .. SIZE_MAX
Alignments == {2 ^ k : k \in 0 .. (WordBits - 1)}
ObjectSizes == {1, 3, 16, 32}

(* ------------------------------ state ---------------------------------- *)
VARIABLES
    base,       \* address of the static sentinel `base`
    MAX_RAM,    \* static size_t MAX_RAM
    freelist,   \* static FreeList* freelist (the head cursor)
    mem,        \* header words written so far: address -> [next, size]
    mapped,     \* pages obtained from mmap
    live,       \* payload pointers currently held by the caller
    status,     \* "ok", "hang" (a loop never ends) or "crash" (wild read)
    nops,       \* number of calls that passed their entry guard
    last,       \* record of the last call and what it returned
    run,        \* the run of three adjacent live blocks now being freed
    calc,       \* core/memory.c: the arguments of a call and its result
    doc,        \* FreeList.md: the allocator with a heap-allocated sentinel
    heap,       \* knr.c, static arena: `static Heap heap` and its unit size
    blocks,     \* core/memory.c: the platform's blocks and the last call
    arena,      \* allocator/arena.c: one Arena, a checkpoint and the last call
    pool        \* allocator/pool.c: one Pool, the buffers' words, the last call

vars == <<base, MAX_RAM, freelist, mem, mapped, live, status, nops, last, run,
          calc, doc, heap, blocks, arena, pool>>

ZeroHdr == [next |-> NULL, size |-> 0]

(* value of the header at address a; untouched mmap memory reads as zero *)
Rd(m, a) == IF a \in DOMAIN m THEN m[a] ELSE ZeroHdr

Wr(m, a, h) == [x \in DOMAIN m \cup {a} |-> IF x = a THEN h ELSE m[x]]

WrNext(m, a, n) == Wr(m, a, [next |-> n, size |-> Rd(m, a).size])
WrSize(m, a, s) == Wr(m, a, [next |-> Rd(m, a).next, size |-> s])

(* FreeList pointer arithmetic: p + k advances by k headers *)
PtrAdd(p, k) == (p + k * HEADER_SIZE) % Word
PtrSub(p, k) == (p + Word * HEADER_SIZE - k * HEADER_SIZE) % Word

(* an address the process may dereference as a header *)
Readable(b, mp, a) == a = b \/ (PageOf(a) \in mp /\ PageOf(a + HEADER_SIZE - 1) \in mp)


(* nodes reached from `from` by following next (the list as the code sees it) *)
RECURSIVE Reach(_, _, _)
Reach(m, from, seen) ==
    IF from \in seen THEN seen
    ELSE Reach(m, Rd(m, from).next, seen \cup {from})

FreeNodes(m, fl) == IF fl = NULL THEN {} ELSE Reach(m, fl, {})

(* iterations granted to a loop before it is declared endless *)
Fuel == 4 * (NumPages * PageUnits + 2)
HANG == 0 - 1
CRASH == 0 - 2

(* ------------------------------ knr.c ---------------------------------- *)
system_max_ram(pages, page_size) ==
    LET max_ram == IF pages <= 0 \/ page_size <= 0
                   THEN DSA_FALLBACK_MAX_RAM
                   ELSE (pages * page_size) % Word
    IN  IF max_ram > DSA_RAM_RESERVE
        THEN max_ram - DSA_RAM_RESERVE
        ELSE MIN_MAX_RAM

(* st = [mem, freelist, mapped, status, MAX_RAM] *)
allocator_freelist_init(st, pages) ==
    LET s1 == IF 0 = st.MAX_RAM
              THEN [st EXCEPT !.MAX_RAM = system_max_ram(pages, PAGE_SIZE)]
              ELSE st
    IN  IF NULL = s1.freelist
        THEN [s1 EXCEPT !.mem = WrNext(s1.mem, base, base), !.freelist = base]
        ELSE s1

coalesce_adjacent_neighbor(m, a, b) == PtrAdd(a, Rd(m, a).size) = b

merge_with_upper_neighbor(m, a, b) ==
    LET bn == Rd(m, b).next
    IN  Wr(m, a, [size |-> (Rd(m, a).size + Rd(m, bn).size) % Word,
                  next |-> Rd(m, bn).next])

merge_with_lower_neighbor(m, a, b) ==
    Wr(m, a, [size |-> (Rd(m, a).size + Rd(m, b).size) % Word,
              next |-> Rd(m, b).next])

(* the "Find insert point" loop *)
RECURSIVE InsertPoint(_, _, _, _, _)
InsertPoint(m, mp, current, block, fuel) ==
    IF fuel = 0 THEN HANG
    ELSE IF ~Readable(base, mp, current) THEN CRASH
    ELSE LET nx == Rd(m, current).next IN
         IF block > current /\ block < nx THEN current
         ELSE IF ((current >= nx) /\ (block > current)) \/ block < nx THEN current
         ELSE InsertPoint(m, mp, nx, block, fuel - 1)

allocator_freelist_insert(st, ptr) ==
    LET block == PtrSub(ptr, 1)
        current == InsertPoint(st.mem, st.mapped, st.freelist, block, Fuel)
    IN  IF current = HANG THEN [st EXCEPT !.status = "hang"]
        ELSE IF current = CRASH THEN [st EXCEPT !.status = "crash"]
        ELSE
        LET nx == Rd(st.mem, current).next
            m1 == IF coalesce_adjacent_neighbor(st.mem, block, nx)
                  THEN merge_with_upper_neighbor(st.mem, block, current)
                  ELSE WrNext(st.mem, block, nx)
            m2 == IF coalesce_adjacent_neighbor(m1, current, block)
                  THEN merge_with_lower_neighbor(m1, current, block)
                  ELSE WrNext(m1, current, block)
        IN  [st EXCEPT !.mem = m2, !.freelist = current]

(* addresses mmap may return for nbytes: any run of unmapped pages *)
MmapChoices(mp, nbytes) ==
    LET np == nbytes \div PAGE_SIZE
    IN  {PageAddr(p) : p \in {p \in Pages :
            \A q \in p .. (p + np - 1) :
                q \in Pages /\ q \notin mp /\ q # PageOf(base)}}

(* nbytes of allocator_freelist_heap_bump: rounded up to the page size *)
BumpBytes(nunits) ==
    LET nbytes0 == (nunits * HEADER_SIZE) % Word
    IN  IF 0 # nbytes0 % PAGE_SIZE
        THEN (nbytes0 + (PAGE_SIZE - (nbytes0 % PAGE_SIZE))) % Word
        ELSE nbytes0

(* allocator_freelist_heap_bump with mmap answering `address`              *)
(* (MAP_FAILED is modelled as NULL); returns the state and the result      *)
allocator_freelist_heap_bump(st, nunits, address) ==
    LET nbytes == BumpBytes(nunits)
    IN  IF address = NULL THEN [st |-> st, ret |-> NULL]
        ELSE
        LET block == address
            np == nbytes \div PAGE_SIZE
            s1 == [st EXCEPT !.mem = WrSize(st.mem, block, nbytes \div HEADER_SIZE),
                             !.mapped = st.mapped \cup
                                 {PageOf(address) + i : i \in 0 .. (np - 1)}]
            s2 == allocator_freelist_insert(s1, PtrAdd(block, 1))
        IN  [st |-> s2, ret |-> s2.freelist]

(* the same, forgetting that pointer arithmetic counts headers *)
TailBlockInBytes(current, size, nunits) == (current + Word + size - nunits) % Word

(* `alloc = current + current->size - nunits`: the tail of an oversize block *)
TailBlock(current, size, nunits) == PtrSub(PtrAdd(current, size), nunits)

(* the guard without the ceiling, as in the static-heap drafts *)
RequestRejectedZeroOnly(size, max_ram) == size = 0

(* the guard `size == 0 || size > MAX_RAM` *)
RequestRejected(size, max_ram) == size = 0 \/ size > max_ram

(* nunits without the unit for the header *)
RequestUnitsNoHeader(size) ==
    LET payload_size == memory_aligned_size(size, MEMORY_ALIGNMENT)
    IN  (((payload_size + HEADER_SIZE - 1) % Word) \div HEADER_SIZE) % Word

(* nunits: the aligned payload in headers, plus one for the header itself *)
RequestUnits(size) ==
    LET payload_size == memory_aligned_size(size, MEMORY_ALIGNMENT)
    IN  (((payload_size + HEADER_SIZE - 1) % Word) \div HEADER_SIZE + 1) % Word

(* what the search found: the fitting block, the traversal's `previous`,   *)
(* the block's size and successor and the nodes linked to it at that time  *)
NoFit == [block |-> NULL, previous |-> NULL, size |-> 0, next |-> NULL,
          preds |-> {}]
FitAt(m, fl, previous, current) ==
    [block |-> current, previous |-> previous, size |-> Rd(m, current).size,
     next |-> Rd(m, current).next,
     preds |-> {x \in FreeNodes(m, fl) : Rd(m, x).next = current}]

(* the head cursor moved to the block that was found *)
HeadAfterFitAtBlock(previous, current) == current

(* `freelist = previous` *)
HeadAfterFit(previous, current) == previous

(* the `while (true)` of allocator_freelist_malloc: the set of outcomes,   *)
(* one for every way the platform can answer the mmap calls made.          *)
(* r = [st, previous, current, bumps, fitAtBump, seen, skipped]: seen are  *)
(* the nodes whose size has been compared, skipped tells that mmap was     *)
(* called while a node of the list had not been compared                   *)
RECURSIVE MallocLoop(_, _, _)
MallocLoop(r, nunits, fuel) ==
    LET st == r.st
        current == r.current
        previous == r.previous
        out(s, p, f) == [st |-> s, ret |-> p, bumps |-> r.bumps,
                         fitAtBump |-> r.fitAtBump, nunits |-> nunits,
                         skipped |-> r.skipped, fit |-> f]
    IN
    IF fuel = 0 THEN {out([st EXCEPT !.status = "hang"], NULL, NoFit)}
    ELSE IF ~Readable(base, st.mapped, current)
         THEN {out([st EXCEPT !.status = "crash"], NULL, NoFit)}
    ELSE IF Rd(st.mem, current).size >= nunits THEN
        IF Rd(st.mem, current).size = nunits
        THEN {out([st EXCEPT !.mem = WrNext(st.mem, previous, Rd(st.mem, current).next),
                             !.freelist = HeadAfterFit(previous, current)],
                  PtrAdd(current, 1),
                  FitAt(st.mem, st.freelist, previous, current))}
        ELSE LET alloc == TailBlock(current, Rd(st.mem, current).size, nunits)
                 m1 == WrSize(st.mem, alloc, nunits)
                 m2 == WrSize(m1, current, (Rd(m1, current).size - nunits) % Word)
             IN  {out([st EXCEPT !.mem = m2,
                                 !.freelist = HeadAfterFit(previous, current)],
                      PtrAdd(alloc, 1),
                      FitAt(st.mem, st.freelist, previous, current))}
    ELSE IF current = st.freelist THEN
        UNION { LET b == allocator_freelist_heap_bump(st, nunits, address)
                    fit == \E x \in FreeNodes(st.mem, st.freelist) :
                               Rd(st.mem, x).size >= nunits
                    skip == ~(FreeNodes(st.mem, st.freelist)
                                 \subseteq (r.seen \cup {current}))
                    r2 == [r EXCEPT !.bumps = @ + 1,
                                    !.fitAtBump = @ \/ fit,
                                    !.skipped = @ \/ skip,
                                    !.seen = @ \cup {current}]
                    fail == [st |-> b.st, ret |-> NULL, bumps |-> r2.bumps,
                             fitAtBump |-> r2.fitAtBump, nunits |-> nunits,
                             skipped |-> r2.skipped, fit |-> NoFit]
                IN  IF NULL = b.ret THEN {fail}
                    ELSE IF b.st.status # "ok" THEN {fail}
                    ELSE MallocLoop([r2 EXCEPT !.st = b.st,
                                               !.previous = current,
                                               !.current = Rd(b.st.mem, current).next],
                                    nunits, fuel - 1)
              : address \in {NULL} \cup MmapChoices(st.mapped, BumpBytes(nunits)) }
    ELSE MallocLoop([r EXCEPT !.previous = current,
                              !.current = Rd(st.mem, current).next,
                              !.seen = @ \cup {current}],
                    nunits, fuel - 1)

(* allocator_freelist_malloc(size) with sysconf(_SC_PHYS_PAGES) = pages *)
allocator_freelist_malloc(st0, size, pages) ==
    LET st == allocator_freelist_init(st0, pages)
    IN  IF RequestRejected(size, st.MAX_RAM)
        THEN {[st |-> st, ret |-> NULL, bumps |-> 0, fitAtBump |-> FALSE,
               nunits |-> 0, skipped |-> FALSE, fit |-> NoFit]}
        ELSE
        LET nunits == RequestUnits(size)
        IN  MallocLoop([st |-> st, previous |-> st.freelist,
                        current |-> Rd(st.mem, st.freelist).next,
                        bumps |-> 0, fitAtBump |-> FALSE, seen |-> {},
                        skipped |-> FALSE],
                       nunits, Fuel)

(* free without the null test *)
allocator_freelist_free_unguarded(st, ptr) == allocator_freelist_insert(st, ptr)

allocator_freelist_free(st, ptr) ==
    IF NULL = ptr THEN st ELSE allocator_freelist_insert(st, ptr)

(* ------------------------------ actions -------------------------------- *)
Hdr(p) == PtrSub(p, 1)
BlockEnd(p) == PtrAdd(Hdr(p), Rd(mem, Hdr(p)).size)

(* history: a run of three pairwise adjacent live blocks being freed *)
NoRun == [lo |-> NULL, hi |-> NULL, left |-> 0]
RunsWith(ptr) ==
    {t \in live \X live \X live :
        /\ BlockEnd(t[1]) = Hdr(t[2])
        /\ BlockEnd(t[2]) = Hdr(t[3])
        /\ ptr \in {t[1], t[2], t[3]}}
NextRun(ptr) ==
    IF ptr = NULL THEN {run}
    ELSE IF run.left > 0 /\ Hdr(ptr) >= run.lo /\ Hdr(ptr) < run.hi
    THEN {[run EXCEPT !.left = @ - 1]}
    ELSE IF RunsWith(ptr) # {}
    THEN {[lo |-> Hdr(t[1]), hi |-> BlockEnd(t[3]), left |-> 2] : t \in RunsWith(ptr)}
    ELSE {NoRun}

State == [mem |-> mem, freelist |-> freelist, mapped |-> mapped,
          status |-> status, MAX_RAM |-> MAX_RAM]

Malloc ==
    /\ status = "ok"
    /\ nops < MaxOps
    /\ \E size \in Sizes,
          pages \in (IF 0 = MAX_RAM THEN PhysPagesChoices ELSE {0}) :
       \E o \in allocator_freelist_malloc(State, size, pages) :
          /\ nops' = IF RequestRejected(size, o.st.MAX_RAM) THEN nops ELSE nops + 1
          /\ mem' = o.st.mem
          /\ freelist' = o.st.freelist
          /\ mapped' = o.st.mapped
          /\ status' = o.st.status
          /\ MAX_RAM' = o.st.MAX_RAM
          /\ live' = IF o.ret = NULL THEN live ELSE live \cup {o.ret}
          /\ last' = [op |-> "malloc", arg |-> size, ret |-> o.ret,
                      bumps |-> o.bumps, fitAtBump |-> o.fitAtBump,
                      nunits |-> o.nunits, skipped |-> o.skipped,
                      fit |-> o.fit]
    /\ run' = NoRun
    /\ UNCHANGED <<base, calc, doc, heap, blocks, arena, pool>>

Free ==
    /\ status = "ok"
    /\ nops < MaxOps
    /\ \E ptr \in live \cup {NULL} :
       LET s == allocator_freelist_free(State, ptr) IN
          /\ nops' = IF NULL = ptr THEN nops ELSE nops + 1
          /\ mem' = s.mem
          /\ freelist' = s.freelist
          /\ status' = s.status
          /\ live' = live \ {ptr}
          /\ last' = [op |-> "free", arg |-> ptr, ret |-> NULL,
                      bumps |-> 0, fitAtBump |-> FALSE, nunits |-> 0,
               skipped |-> FALSE, fit |-> NoFit]
          /\ run' \in NextRun(ptr)
    /\ UNCHANGED <<base, MAX_RAM, mapped, calc, doc, heap, blocks, arena, pool>>


NoCall == [op |-> "none", value |-> 0, alignment |-> 1, size |-> 1, out |-> 0]

(* `static FreeList* base = NULL; static FreeList* head = NULL;` *)
NoList == [base |-> NULL, head |-> NULL, mem |-> [a \in {} |-> ZeroHdr],
           regions |-> {}, live |-> {}, status |-> "ok", nops |-> 0,
           last |-> [op |-> "none", ret |-> 0, was |-> FALSE,
                     refused |-> FALSE, retry |-> FALSE]]

(* `static Heap heap` before the arena is in use *)
NoHeap == [base |-> 0, end |-> 0, current |-> 0, unit |-> 0]

(* the platform allocator before any call: every chunk free *)
SIZEOF_VOID_P == 8
Chunks == {8, 16}
NoBlock == [live |-> FALSE, bytes |-> <<>>]
NoAlignedCall == [op |-> "none", ptr |-> 0, n |-> 0, old_size |-> 0,
                  size |-> 0, alignment |-> 0, ret |-> 0, calls |-> 0,
                  palign |-> 0, rc |-> 0, given |-> 0, freed |-> <<>>,
                  was |-> <<>>]
NoBlocks == [chunk |-> [a \in Chunks |-> NoBlock], last |-> NoAlignedCall]

(* no arena: the state of the variable outside the arena's specification *)
NoArenaCall == [op |-> "none", size |-> 0, alignment |-> 0, ret |-> 0,
                was |-> 0, padding |-> 0]
NoCheckpoint == [held |-> FALSE, offset |-> 0, last_offset |-> 0]
NoArena == [buffer |-> 0, capacity |-> 0, offset |-> 0, last_offset |-> 0,
            checkpoint |-> NoCheckpoint, last |-> NoArenaCall]

(* no pool: the state of the variable outside the pool's specification *)
NoPoolCall == [op |-> "none", arg |-> 0, ret |-> 0]
NoPool == [buffer |-> 0, capacity |-> 0, block_size |-> 0, block_count |-> 0,
           head |-> 0, words |-> [a \in {} |-> 0], out |-> {}, freed |-> {},
           status |-> "rest", grown |-> FALSE, last |-> NoPoolCall]

Init ==
    /\ calc = NoCall
    /\ doc = NoList
    /\ heap = NoHeap
    /\ blocks = NoBlocks
    /\ arena = NoArena
    /\ pool = NoPool
    /\ base \in BaseChoices
    /\ MAX_RAM = 0
    /\ freelist = NULL
    /\ mem = [a \in {base} |-> ZeroHdr]
    /\ mapped = {}
    /\ live = {}
    /\ status = "ok"
    /\ nops = 0
    /\ run = NoRun
    /\ last = [op |-> "none", arg |-> 0, ret |-> NULL, bumps |-> 0,
               fitAtBump |-> FALSE, nunits |-> 0,
               skipped |-> FALSE, fit |-> NoFit]

Next == Malloc \/ Free

Spec == Init /\ [][Next]_vars

(* ------------------- knr.c, third draft: static arena ------------------ *)
(* `static max_align_t buffer[HEAP_WORDS]`: sizeof(max_align_t) is chosen  *)
(* by the implementation (16, or 32 where long double is padded to 16)     *)
MaxAlignSizes == {MEMORY_ALIGNMENT, 2 * MEMORY_ALIGNMENT}
BufferAddr == PAGE_SIZE
BufferBytes(unit) == HEAP_WORDS * unit
BufferPages(unit) ==
    {PageOf(BufferAddr + i * HEADER_SIZE) :
        i \in 0 .. (BufferBytes(unit) \div HEADER_SIZE - 1)}

(* places the linker can give the static sentinel: below the buffer,       *)
(* right after it, or further up                                           *)
StaticBaseChoices(unit) ==
    {BufferAddr - 2 * HEADER_SIZE, BufferAddr + BufferBytes(unit),
     BufferAddr + BufferBytes(unit) + HEADER_SIZE}

(* st = [mem, freelist, mapped, status, MAX_RAM] as above; the insertion,  *)
(* the merges and free of this draft are those of the first, line for line *)
allocator_freelist_init_static(st) ==
    [st EXCEPT !.mem = Wr(st.mem, base, [next |-> base, size |-> 0]),
               !.freelist = base]

(* hp = [base, end, current, unit] *)
allocator_freelist_heap_bump_static(st, hp, nunits) ==
    LET nbytes == (nunits * HEADER_SIZE) % Word
    IN  IF (hp.current + nbytes) % Word > hp.end
        THEN [st |-> st, hp |-> hp, ret |-> NULL]
        ELSE
        LET block == hp.current
            s1 == [st EXCEPT !.mem = WrSize(st.mem, block, nunits)]
            h1 == [hp EXCEPT !.current = (hp.current + nbytes) % Word]
            s2 == allocator_freelist_insert(s1, PtrAdd(block, 1))
        IN  [st |-> s2, hp |-> h1, ret |-> s2.freelist]

(* `nunits = (size + HEADER_SIZE - 1) / HEADER_SIZE + 1` *)
StaticRequestUnits(size) ==
    (((size + HEADER_SIZE - 1) % Word) \div HEADER_SIZE + 1) % Word

(* the `while (true)` of the third draft; r = [st, hp, previous, current,  *)
(* bumps]                                                                  *)
RECURSIVE StaticMallocLoop(_, _, _)
StaticMallocLoop(r, nunits, fuel) ==
    LET st == r.st
        current == r.current
        previous == r.previous
        out(s, h, p) == [st |-> s, hp |-> h, ret |-> p, bumps |-> r.bumps,
                         nunits |-> nunits]
    IN
    IF fuel = 0 THEN out([st EXCEPT !.status = "hang"], r.hp, NULL)
    ELSE IF ~Readable(base, st.mapped, current)
         THEN out([st EXCEPT !.status = "crash"], r.hp, NULL)
    ELSE IF Rd(st.mem, current).size >= nunits THEN
        IF Rd(st.mem, current).size = nunits
        THEN out([st EXCEPT !.mem = WrNext(st.mem, previous, Rd(st.mem, current).next),
                            !.freelist = previous],
                 r.hp, PtrAdd(current, 1))
        ELSE LET alloc == TailBlock(current, Rd(st.mem, current).size, nunits)
                 m1 == WrSize(st.mem, alloc, nunits)
                 m2 == WrSize(m1, current, (Rd(m1, current).size - nunits) % Word)
             IN  out([st EXCEPT !.mem = m2, !.freelist = previous],
                     r.hp, PtrAdd(alloc, 1))
    ELSE IF current = st.freelist THEN
        LET b == allocator_freelist_heap_bump_static(st, r.hp, nunits)
            r2 == [r EXCEPT !.bumps = @ + 1]
        IN  IF NULL = b.ret
            THEN [st |-> b.st, hp |-> b.hp, ret |-> NULL, bumps |-> r2.bumps,
                  nunits |-> nunits]
            ELSE IF b.st.status # "ok"
            THEN [st |-> b.st, hp |-> b.hp, ret |-> NULL, bumps |-> r2.bumps,
                  nunits |-> nunits]
            ELSE StaticMallocLoop([r2 EXCEPT !.st = b.st, !.hp = b.hp,
                                             !.previous = current,
                                             !.current = Rd(b.st.mem, current).next],
                                  nunits, fuel - 1)
    ELSE StaticMallocLoop([r EXCEPT !.previous = current,
                                    !.current = Rd(st.mem, current).next],
                          nunits, fuel - 1)

allocator_freelist_malloc_static(st0, hp, size) ==
    LET nunits == StaticRequestUnits(size)
        st == IF NULL = st0.freelist THEN allocator_freelist_init_static(st0)
              ELSE st0
    IN  StaticMallocLoop([st |-> st, hp |-> hp, previous |-> st.freelist,
                          current |-> Rd(st.mem, st.freelist).next,
                          bumps |-> 0],
                         nunits, Fuel)

allocator_freelist_max_alloc ==
    LET units == HEAP_WORDS
    IN  IF units <= 1 THEN 0
        ELSE LET max_payload_units == units - 1
                 max_payload_bytes == max_payload_units * HEADER_SIZE
             IN  max_payload_bytes - (max_payload_bytes % MEMORY_ALIGNMENT)

(* request sizes offered to the static-arena malloc: the test's sizes *)
StaticSizes == {17, allocator_freelist_max_alloc,
                allocator_freelist_max_alloc + 1}

StaticMalloc ==
    /\ status = "ok"
    /\ nops < MaxOps
    /\ \E size \in StaticSizes :
       LET o == allocator_freelist_malloc_static(State, heap, size) IN
          /\ mem' = o.st.mem
          /\ freelist' = o.st.freelist
          /\ status' = o.st.status
          /\ heap' = o.hp
          /\ live' = IF o.ret = NULL THEN live ELSE live \cup {o.ret}
          /\ last' = [op |-> "malloc", arg |-> size, ret |-> o.ret,
                      bumps |-> o.bumps, fitAtBump |-> FALSE,
                      nunits |-> o.nunits, skipped |-> FALSE, fit |-> NoFit]
    /\ nops' = nops + 1
    /\ UNCHANGED <<base, MAX_RAM, mapped, run, calc, doc, blocks, arena, pool>>

StaticFree ==
    /\ status = "ok"
    /\ nops < MaxOps
    /\ \E ptr \in live \cup {NULL} :
       LET s == allocator_freelist_free(State, ptr) IN
          /\ nops' = IF NULL = ptr THEN nops ELSE nops + 1
          /\ mem' = s.mem
          /\ freelist' = s.freelist
          /\ status' = s.status
          /\ live' = live \ {ptr}
          /\ last' = [op |-> "free", arg |-> ptr, ret |-> NULL,
                      bumps |-> 0, fitAtBump |-> FALSE, nunits |-> 0,
                      skipped |-> FALSE, fit |-> NoFit]
    /\ UNCHANGED <<base, MAX_RAM, mapped, run, calc, doc, heap, blocks, arena, pool>>

InitStatic ==
    /\ calc = NoCall
    /\ doc = NoList
    /\ blocks = NoBlocks
    /\ arena = NoArena
    /\ pool = NoPool
    /\ \E unit \in MaxAlignSizes :
          /\ heap = [base |-> BufferAddr, end |-> BufferAddr + BufferBytes(unit),
                     current |-> BufferAddr, unit |-> unit]
          /\ base \in StaticBaseChoices(unit)
          /\ mapped = BufferPages(unit)
    /\ MAX_RAM = 0
    /\ freelist = NULL
    /\ mem = [a \in {base} |-> ZeroHdr]
    /\ live = {}
    /\ status = "ok"
    /\ nops = 0
    /\ run = NoRun
    /\ last = [op |-> "none", arg |-> 0, ret |-> NULL, bumps |-> 0,
               fitAtBump |-> FALSE, nunits |-> 0,
               skipped |-> FALSE, fit |-> NoFit]

NextStatic == StaticMalloc \/ StaticFree

SpecStatic == InitStatic /\ [][NextStatic]_vars

(* ------------------- core/memory.c: alignment functions ---------------- *)
(* the free-list allocator at rest while the alignment functions run *)
KnrAtRest ==
    /\ base = NULL /\ MAX_RAM = 0 /\ freelist = NULL
    /\ mem = [a \in {NULL} |-> ZeroHdr]
    /\ mapped = {} /\ live = {} /\ status = "rest" /\ nops = 0
    /\ run = NoRun
    /\ last = [op |-> "none", arg |-> 0, ret |-> NULL, bumps |-> 0,
               fitAtBump |-> FALSE, nunits |-> 0,
               skipped |-> FALSE, fit |-> NoFit]

KnrVars == <<base, MAX_RAM, freelist, mem, mapped, live, status, nops, last, run>>

Called(op, out) == [calc EXCEPT !.op = op, !.out = out]

AlignUp ==
    /\ calc.op = "none"
    /\ calc' = Called("align_up", memory_align_up(calc.value, calc.alignment))
    /\ UNCHANGED <<KnrVars, doc, heap, blocks, arena, pool>>

AlignDown ==
    /\ calc.op = "none"
    /\ calc' = Called("align_down", memory_align_down(calc.value, calc.alignment))
    /\ UNCHANGED <<KnrVars, doc, heap, blocks, arena, pool>>

PaddingNeeded ==
    /\ calc.op = "none"
    /\ calc' = Called("padding_needed",
                      memory_padding_needed(calc.value, calc.alignment))
    /\ UNCHANGED <<KnrVars, doc, heap, blocks, arena, pool>>

IsPowerOfTwo ==
    /\ calc.op = "none"
    /\ calc' = Called("is_power_of_two",
                      IF memory_is_power_of_two(calc.value) THEN 1 ELSE 0)
    /\ UNCHANGED <<KnrVars, doc, heap, blocks, arena, pool>>

ObjectCount ==
    /\ calc.op = "none"
    /\ calc' = Called("object_count",
                      memory_object_count(calc.value, calc.size, calc.alignment))
    /\ UNCHANGED <<KnrVars, doc, heap, blocks, arena, pool>>

(* system_max_ram reads sysconf(_SC_PHYS_PAGES) and sysconf(_SC_PAGE_SIZE): *)
(* the page count is calc.value, the page size calc.alignment             *)
SystemMaxRam ==
    /\ calc.op = "none"
    /\ calc' = Called("system_max_ram",
                      system_max_ram(calc.value, calc.alignment))
    /\ UNCHANGED <<KnrVars, doc, heap, blocks, arena, pool>>

InitMemory ==
    /\ KnrAtRest
    /\ doc = NoList
    /\ heap = NoHeap
    /\ blocks = NoBlocks
    /\ arena = NoArena
    /\ pool = NoPool
    /\ calc \in [op : {"none"}, value : Values, alignment : Alignments,
                  size : ObjectSizes, out : {0}]

NextMemory ==
    \/ AlignUp \/ AlignDown \/ PaddingNeeded \/ IsPowerOfTwo \/ ObjectCount
    \/ SystemMaxRam

SpecMemory == InitMemory /\ [][NextMemory]_vars

(* --------------- core/memory.c: aligned allocation facade -------------- *)
(* blocks.chunk: the places the platform allocator can put a block, each   *)
(* free or holding the bytes of one live block; a block of more than       *)
(* MaxBytes bytes does not fit and the request fails                       *)
ENOMEM == 12
ByteValues == {0, 1}

(* the contents a block can have when the platform hands it out *)
RECURSIVE Fresh(_)
Fresh(n) ==
    IF n = 0 THEN {<<>>}
    ELSE {Append(c, b) : c \in Fresh(n - 1), b \in ByteValues}

RECURSIVE Fill(_, _)
Fill(c, n) == IF n = 0 THEN <<>> ELSE Append(Fill(c, n - 1), c)

(* posix_memalign(&address, alignment, size): it may fail at any time,     *)
(* leaving address as it was (null); for a size of zero it may also        *)
(* succeed with a null pointer                                             *)
posix_memalign(ch, alignment, size) ==
    {[rc |-> ENOMEM, address |-> NULL, chunk |-> ch]}
    \cup (IF size = 0 THEN {[rc |-> 0, address |-> NULL, chunk |-> ch]} ELSE {})
    \cup (IF size > MaxBytes THEN {}
          ELSE {[rc |-> 0, address |-> a,
                 chunk |-> [ch EXCEPT ![a] = [live |-> TRUE, bytes |-> c]]] :
                    a \in {x \in Chunks : ~ch[x].live /\ x % alignment = 0},
                    c \in Fresh(size)})

free(ch, ptr) == [ch EXCEPT ![ptr] = NoBlock]

memset(ch, address, c, n) ==
    [ch EXCEPT ![address].bytes =
        Fill(c, n) \o SubSeq(ch[address].bytes, n + 1, Len(ch[address].bytes))]

memcpy(ch, dst, src, n) ==
    [ch EXCEPT ![dst].bytes =
        SubSeq(ch[src].bytes, 1, n) \o SubSeq(ch[dst].bytes, n + 1, Len(ch[dst].bytes))]

(* what a call leaves behind: its result, the chunks, the number of calls  *)
(* of posix_memalign with the alignment passed, its return code and the    *)
(* address it stored, and the pointers passed to free                      *)
Outcome(ret, ch, calls, palign, rc, given, freed) ==
    [ret |-> ret, chunk |-> ch, calls |-> calls, palign |-> palign,
     rc |-> rc, given |-> given, freed |-> freed]

(* the allocation without the raise of small alignments *)
memory_aligned_alloc_unraised(ch, size, alignment) ==
    IF ~memory_is_power_of_two(alignment)
    THEN {Outcome(NULL, ch, 0, 0, 0, NULL, <<>>)}
    ELSE {Outcome(IF 0 # o.rc THEN NULL ELSE o.address, o.chunk, 1, alignment,
                  o.rc, o.address, <<>>) :
             o \in posix_memalign(ch, alignment, size)}

memory_aligned_alloc(ch, size, alignment0) ==
    LET alignment == IF alignment0 < SIZEOF_VOID_P THEN SIZEOF_VOID_P
                     ELSE alignment0
    IN  IF ~memory_is_power_of_two(alignment)
        THEN {Outcome(NULL, ch, 0, 0, 0, NULL, <<>>)}
        ELSE {Outcome(IF 0 # o.rc THEN NULL ELSE o.address, o.chunk, 1,
                      alignment, o.rc, o.address, <<>>) :
                 o \in posix_memalign(ch, alignment, size)}

memory_aligned_calloc(ch, n, size, alignment) ==
    LET total == (n * size) % Word
    IN  {IF o.ret # NULL
         THEN [o EXCEPT !.chunk = memset(o.chunk, o.ret, 0, total)]
         ELSE o : o \in memory_aligned_alloc(ch, total, alignment)}

(* realloc that keeps the old block *)
memory_aligned_realloc_leak(ch, ptr, old_size, new_size, alignment) ==
    IF NULL = ptr THEN memory_aligned_alloc(ch, new_size, alignment)
    ELSE IF 0 = new_size
    THEN {Outcome(NULL, free(ch, ptr), 0, 0, 0, NULL, <<ptr>>)}
    ELSE IF ~memory_is_power_of_two(alignment)
    THEN {Outcome(NULL, ch, 0, 0, 0, NULL, <<>>)}
    ELSE {IF NULL = o.ret THEN o
          ELSE LET min_size == IF old_size < new_size THEN old_size ELSE new_size
               IN  [o EXCEPT !.chunk = memcpy(o.chunk, o.ret, ptr, min_size)] :
             o \in memory_aligned_alloc(ch, new_size, alignment)}

(* realloc that releases the old block before it asks for the new one *)
memory_aligned_realloc_eager(ch, ptr, old_size, new_size, alignment) ==
    IF NULL = ptr THEN memory_aligned_alloc(ch, new_size, alignment)
    ELSE IF 0 = new_size
    THEN {Outcome(NULL, free(ch, ptr), 0, 0, 0, NULL, <<ptr>>)}
    ELSE IF ~memory_is_power_of_two(alignment)
    THEN {Outcome(NULL, ch, 0, 0, 0, NULL, <<>>)}
    ELSE {IF NULL = o.ret THEN [o EXCEPT !.freed = <<ptr>>]
          ELSE LET min_size == IF old_size < new_size THEN old_size ELSE new_size
               IN  [o EXCEPT !.chunk = [@ EXCEPT ![o.ret].bytes =
                                           SubSeq(ch[ptr].bytes, 1, min_size)
                                           \o SubSeq(@, min_size + 1, Len(@))],
                             !.freed = <<ptr>>] :
             o \in memory_aligned_alloc(free(ch, ptr), new_size, alignment)}

memory_aligned_realloc(ch, ptr, old_size, new_size, alignment) ==
    IF NULL = ptr THEN memory_aligned_alloc(ch, new_size, alignment)
    ELSE IF 0 = new_size
    THEN {Outcome(NULL, free(ch, ptr), 0, 0, 0, NULL, <<ptr>>)}
    ELSE IF ~memory_is_power_of_two(alignment)
    THEN {Outcome(NULL, ch, 0, 0, 0, NULL, <<>>)}
    ELSE {IF NULL = o.ret THEN o
          ELSE LET min_size == IF old_size < new_size THEN old_size ELSE new_size
               IN  [o EXCEPT !.chunk = free(memcpy(o.chunk, o.ret, ptr, min_size), ptr),
                             !.freed = <<ptr>>] :
             o \in memory_aligned_alloc(ch, new_size, alignment)}

memory_aligned_free(ch, ptr) ==
    IF NULL # ptr THEN Outcome(NULL, free(ch, ptr), 0, 0, 0, NULL, <<ptr>>)
    ELSE Outcome(NULL, ch, 0, 0, 0, NULL, <<>>)

(* arguments offered to the facade *)
FacadeSizes == 0 .. (MaxBytes + 1)
FacadeAlignments == {0, 4, 12, 16}
Counts == {1, 2, Word \div 2, Word \div 2 + 1}
ElemSizes == {1, 2}
LiveBlocks == {a \in Chunks : blocks.chunk[a].live}

(* the chunks after a call, with the record of the call *)
AfterCall(op, ptr, n, old_size, size, alignment, o) ==
    [chunk |-> o.chunk,
     last |-> [op |-> op, ptr |-> ptr, n |-> n, old_size |-> old_size,
               size |-> size, alignment |-> alignment, ret |-> o.ret,
               calls |-> o.calls, palign |-> o.palign, rc |-> o.rc,
               given |-> o.given, freed |-> o.freed,
               was |-> IF ptr = NULL THEN <<>> ELSE blocks.chunk[ptr].bytes]]

AlignedAlloc ==
    /\ \E size \in FacadeSizes, alignment \in FacadeAlignments :
       \E o \in memory_aligned_alloc(blocks.chunk, size, alignment) :
          blocks' = AfterCall("alloc", NULL, 0, 0, size, alignment, o)
    /\ UNCHANGED <<KnrVars, calc, doc, heap, arena, pool>>

AlignedCalloc ==
    /\ \E n \in Counts, size \in ElemSizes, alignment \in FacadeAlignments :
       \E o \in memory_aligned_calloc(blocks.chunk, n, size, alignment) :
          blocks' = AfterCall("calloc", NULL, n, 0, size, alignment, o)
    /\ UNCHANGED <<KnrVars, calc, doc, heap, arena, pool>>

(* old_size is at most the size the block was allocated with *)
AlignedRealloc ==
    /\ \E ptr \in LiveBlocks \cup {NULL}, new_size \in FacadeSizes,
          alignment \in FacadeAlignments :
       \E old_size \in (IF ptr = NULL THEN {0}
                        ELSE 0 .. Len(blocks.chunk[ptr].bytes)) :
       \E o \in memory_aligned_realloc(blocks.chunk, ptr, old_size, new_size,
                                       alignment) :
          blocks' = AfterCall("realloc", ptr, 0, old_size, new_size, alignment, o)
    /\ UNCHANGED <<KnrVars, calc, doc, heap, arena, pool>>

AlignedFree ==
    /\ \E ptr \in LiveBlocks \cup {NULL} :
          blocks' = AfterCall("free", ptr, 0, 0, 0, 0,
                              memory_aligned_free(blocks.chunk, ptr))
    /\ UNCHANGED <<KnrVars, calc, doc, heap, arena, pool>>

InitAligned ==
    /\ KnrAtRest
    /\ calc = NoCall
    /\ doc = NoList
    /\ heap = NoHeap
    /\ blocks = NoBlocks
    /\ arena = NoArena
    /\ pool = NoPool

NextAligned == AlignedAlloc \/ AlignedCalloc \/ AlignedRealloc \/ AlignedFree

SpecAligned == InitAligned /\ [][NextAligned]_vars

(* ------------- FreeList.md: initialize, terminate, block_new ----------- *)
(* d = [base, head, mem, regions, live, status, nops, last]; regions are   *)
(* the allocations obtained from memory_alloc and not yet given back.      *)
Slots == 1 .. DocSlots
SlotAddr(i) == i * HEADER_SIZE
Region(address, units) == [addr |-> address, units |-> units]
RegionRange(r) == {r.addr + i * HEADER_SIZE : i \in 0 .. (r.units - 1)}
Allocated(regions) == UNION {RegionRange(r) : r \in regions}

(* addresses memory_alloc(nbytes, alignof(FreeList)) may return *)
memory_alloc(regions, nbytes) ==
    LET n == nbytes \div HEADER_SIZE
    IN  {SlotAddr(i) : i \in {i \in Slots :
            \A j \in i .. (i + n - 1) :
                j \in Slots /\ SlotAddr(j) \notin Allocated(regions)}}

(* memory_free(ptr): the states it can leave. A pointer that memory_alloc  *)
(* did not return is undefined behaviour of free(): the call aborts the    *)
(* process or returns without effect.                                      *)
memory_free(d, ptr) ==
    IF NULL = ptr THEN {d}
    ELSE IF \E r \in d.regions : r.addr = ptr
    THEN {[d EXCEPT !.regions = {r \in d.regions : r.addr # ptr}]}
    ELSE {[d EXCEPT !.status = "crash"], d}

(* freelist_initialize that links the sentinel on every call *)
freelist_initialize_relink(d, address) ==
    IF NULL = d.base /\ NULL = address THEN [st |-> d, ret |-> FALSE]
    ELSE
    LET d1 == IF NULL = d.base
              THEN [d EXCEPT !.base = address,
                             !.regions = @ \cup {Region(address, 1)}]
              ELSE d
    IN  [st |-> [d1 EXCEPT !.mem = Wr(d1.mem, d1.base,
                                      [next |-> d1.base, size |-> 0]),
                           !.head = d1.base],
         ret |-> TRUE]

(* freelist_initialize without the test of memory_alloc's result *)
freelist_initialize_unchecked(d, address) ==
    LET d1 == IF NULL = d.base /\ NULL # address
              THEN [d EXCEPT !.base = address,
                             !.regions = @ \cup {Region(address, 1)}]
              ELSE d
    IN  IF NULL = d1.head /\ NULL # d1.base
        THEN [st |-> [d1 EXCEPT !.mem = Wr(d1.mem, d1.base,
                                          [next |-> d1.base, size |-> 0]),
                               !.head = d1.base],
              ret |-> TRUE]
        ELSE [st |-> d1, ret |-> TRUE]

(* freelist_initialize with memory_alloc answering `address` when asked *)
freelist_initialize(d, address) ==
    IF NULL = d.base /\ NULL = address THEN [st |-> d, ret |-> FALSE]
    ELSE
    LET d1 == IF NULL = d.base
              THEN [d EXCEPT !.base = address,
                             !.regions = @ \cup {Region(address, 1)}]
              ELSE d
    IN  IF NULL = d1.head
        THEN [st |-> [d1 EXCEPT !.mem = Wr(d1.mem, d1.base,
                                          [next |-> d1.base, size |-> 0]),
                               !.head = d1.base],
              ret |-> TRUE]
        ELSE [st |-> d1, ret |-> TRUE]

(* the `while (current != base)` of freelist_terminate: the states it can  *)
(* leave                                                                   *)
RECURSIVE TerminateWalk(_, _, _)
TerminateWalk(d, current, fuel) ==
    IF d.status # "ok" THEN {d}
    ELSE IF current = d.base THEN {d}
    ELSE IF fuel = 0 THEN {[d EXCEPT !.status = "hang"]}
    ELSE IF current = NULL THEN {[d EXCEPT !.status = "crash"]}
    ELSE LET next == Rd(d.mem, current).next
         IN  UNION {TerminateWalk(f, next, fuel - 1) : f \in memory_free(d, current)}

(* freelist_terminate: the outcomes [st, ret] *)
freelist_terminate(d) ==
    IF NULL = d.base THEN {[st |-> d, ret |-> FALSE]}
    ELSE
    LET walked == TerminateWalk(d, Rd(d.mem, d.base).next, 2 * DocSlots)
        freed == UNION {IF w.status = "ok" THEN memory_free(w, w.base) ELSE {w}
                        : w \in walked}
    IN  {IF f.status = "ok"
         THEN [st |-> [f EXCEPT !.base = NULL, !.head = NULL,
                                !.mem = [a \in {} |-> ZeroHdr]],
               ret |-> TRUE]
         ELSE [st |-> f, ret |-> FALSE] : f \in freed}

freelist_block_is_neighbor(m, a, b) == PtrAdd(a, Rd(m, a).size) = b

freelist_block_merge_upward(m, a, prev) ==
    LET pn == Rd(m, prev).next
    IN  Wr(m, a, [size |-> (Rd(m, a).size + Rd(m, pn).size) % Word,
                  next |-> Rd(m, pn).next])

freelist_block_merge_downward(m, a, b) ==
    Wr(m, a, [size |-> (Rd(m, a).size + Rd(m, b).size) % Word,
              next |-> Rd(m, b).next])

(* the traversal of freelist_block_insert *)
RECURSIVE BlockInsertPoint(_, _, _, _)
BlockInsertPoint(m, current, block, fuel) ==
    IF fuel = 0 THEN HANG
    ELSE IF current = NULL THEN CRASH
    ELSE LET nx == Rd(m, current).next IN
         IF block > current /\ block < nx THEN current
         ELSE IF current >= nx /\ (block > current \/ block < nx) THEN current
         ELSE BlockInsertPoint(m, nx, block, fuel - 1)

freelist_block_insert(d, ptr) ==
    IF NULL = ptr THEN d
    ELSE
    LET block == PtrSub(ptr, 1)
        current == BlockInsertPoint(d.mem, d.head, block, 2 * DocSlots)
    IN  IF current = HANG THEN [d EXCEPT !.status = "hang"]
        ELSE IF current = CRASH THEN [d EXCEPT !.status = "crash"]
        ELSE
        LET nx == Rd(d.mem, current).next
            m1 == IF freelist_block_is_neighbor(d.mem, block, nx)
                  THEN freelist_block_merge_upward(d.mem, block, current)
                  ELSE WrNext(d.mem, block, nx)
            m2 == IF freelist_block_is_neighbor(m1, current, block)
                  THEN freelist_block_merge_downward(m1, current, block)
                  ELSE WrNext(m1, current, block)
        IN  [d EXCEPT !.mem = m2, !.head = current]

(* freelist_block_new with memory_alloc answering `address` *)
freelist_block_new(d, nunits, address) ==
    LET nbytes == (nunits * HEADER_SIZE) % Word
    IN  IF NULL = address THEN [st |-> d, ret |-> NULL]
        ELSE
        LET block == address
            d1 == [d EXCEPT !.mem = WrSize(d.mem, block, nbytes \div HEADER_SIZE),
                            !.regions = @ \cup {Region(block, nbytes \div HEADER_SIZE)}]
        IN  [st |-> freelist_block_insert(d1, PtrAdd(block, 1)), ret |-> block]

(* freelist_malloc after the sizing: first fit from the head's successor,  *)
(* exact fit or tail split, growth by freelist_block_new when the walk is  *)
(* back at the head, then the search again; the outcomes [st, ret]         *)
RECURSIVE FirstFit(_, _, _, _, _)
FirstFit(d, previous, current, nunits, fuel) ==
    IF fuel = 0 THEN {[st |-> [d EXCEPT !.status = "hang"], ret |-> NULL]}
    ELSE IF current = NULL THEN {[st |-> [d EXCEPT !.status = "crash"], ret |-> NULL]}
    ELSE
    LET size == Rd(d.mem, current).size IN
    IF size >= nunits
    THEN IF size = nunits
         THEN {[st |-> [d EXCEPT !.mem = WrNext(d.mem, previous,
                                                Rd(d.mem, current).next),
                                 !.head = previous],
                ret |-> PtrAdd(current, 1)]}
         ELSE LET alloc == TailBlock(current, size, nunits)
                  m1 == WrSize(d.mem, alloc, nunits)
                  m2 == WrSize(m1, current, size - nunits)
              IN  {[st |-> [d EXCEPT !.mem = m2, !.head = current],
                    ret |-> PtrAdd(alloc, 1)]}
    ELSE IF current = d.head
    THEN UNION {
           LET b == freelist_block_new(d, nunits, address) IN
           IF NULL = b.ret THEN {[st |-> d, ret |-> NULL]}
           ELSE IF b.st.status # "ok" THEN {[st |-> b.st, ret |-> NULL]}
           ELSE FirstFit(b.st, b.st.head, Rd(b.st.mem, b.st.head).next,
                         nunits, fuel - 1)
           : address \in {NULL} \cup memory_alloc(d.regions, (nunits * HEADER_SIZE) % Word)}
    ELSE FirstFit(d, current, Rd(d.mem, current).next, nunits, fuel - 1)

(* freelist_malloc(size), memory_alloc answering `address` to a lazy       *)
(* initialize                                                              *)
freelist_malloc(d0, size, address) ==
    LET i == freelist_initialize(d0, address)
        d == i.st
    IN  IF ~i.ret \/ size = 0 THEN {[st |-> d, ret |-> NULL]}
        ELSE FirstFit(d, d.head, Rd(d.mem, d.head).next, RequestUnits(size),
                      2 * DocSlots)

(* freelist_free(ptr) *)
freelist_free(d, ptr) == freelist_block_insert(d, ptr)

(* request sizes offered to freelist_malloc *)
DocSizes == {0, 1, 33}

(* what memory_alloc may answer when the sentinel is asked for *)
SentinelChoices(d) ==
    IF NULL = d.base THEN {NULL} \cup memory_alloc(d.regions, HEADER_SIZE) ELSE {NULL}

Stamp(d, op, ret, refused) ==
    [d EXCEPT !.nops = doc.nops + 1,
              !.last = [op |-> op, ret |-> ret, was |-> doc.base # NULL,
                        refused |-> refused,
                        retry |-> doc.last.op = "initialize" /\ doc.last.ret = 0]]

Initialize ==
    /\ doc.status = "ok" /\ doc.nops < MaxOps
    /\ \E address \in SentinelChoices(doc) :
          LET o == freelist_initialize(doc, address)
          IN  doc' = Stamp(o.st, "initialize", IF o.ret THEN 1 ELSE 0,
                           NULL = doc.base /\ NULL = address)
    /\ UNCHANGED <<KnrVars, calc, heap, blocks, arena, pool>>

Terminate ==
    /\ doc.status = "ok" /\ doc.nops < MaxOps
    /\ \E o \in freelist_terminate(doc) :
          doc' = Stamp([o.st EXCEPT !.live = IF o.ret THEN {} ELSE @],
                       "terminate", IF o.ret THEN 1 ELSE 0, FALSE)
    /\ UNCHANGED <<KnrVars, calc, heap, blocks, arena, pool>>

FreelistMalloc ==
    /\ doc.status = "ok" /\ doc.nops < MaxOps
    /\ \E size \in DocSizes, address \in SentinelChoices(doc) :
       \E o \in freelist_malloc(doc, size, address) :
          doc' = Stamp([o.st EXCEPT !.live = IF o.ret = NULL THEN @
                                             ELSE @ \cup {o.ret}],
                       "malloc", o.ret, FALSE)
    /\ UNCHANGED <<KnrVars, calc, heap, blocks, arena, pool>>

FreelistFree ==
    /\ doc.status = "ok" /\ doc.nops < MaxOps
    /\ \E ptr \in doc.live :
          doc' = Stamp([freelist_free(doc, ptr) EXCEPT !.live = @ \ {ptr}],
                       "free", ptr, FALSE)
    /\ UNCHANGED <<KnrVars, calc, heap, blocks, arena, pool>>

InitLifecycle ==
    /\ KnrAtRest
    /\ calc = NoCall
    /\ doc = NoList
    /\ heap = NoHeap
    /\ blocks = NoBlocks
    /\ arena = NoArena
    /\ pool = NoPool

NextLifecycle == Initialize \/ Terminate \/ FreelistMalloc \/ FreelistFree

SpecLifecycle == InitLifecycle /\ [][NextLifecycle]_vars

(* --------------------------- derived notions --------------------------- *)
Range(a, sz) == {a + i * HEADER_SIZE : i \in 0 .. (sz - 1)}
LiveRange(p) == Range(Hdr(p), Rd(mem, Hdr(p)).size)
NodeRange(x) == Range(x, Rd(mem, x).size)
Nodes == FreeNodes(mem, freelist)
Initialized == freelist # NULL

(* C1: the ranges [header, header + size) of the live blocks are pairwise  *)
(* disjoint and none of them meets the range of a node of the free list.   *)
C1_ExclusiveOwnership ==
    /\ \A p, q \in live : p # q => LiveRange(p) \cap LiveRange(q) = {}
    /\ \A p \in live : \A x \in Nodes :
          LiveRange(p) \cap (NodeRange(x) \cup {x}) = {}

(* units(n) of the request-sizing rule, in unbounded arithmetic *)
CeilDiv(a, b) == (a + b - 1) \div b
Units(n) == CeilDiv(CeilDiv(n, MEMORY_ALIGNMENT) * MEMORY_ALIGNMENT, HEADER_SIZE) + 1
InPlatformMemory(a) == PageOf(a) \in mapped /\ PageOf(a + HEADER_SIZE - 1) \in mapped

W2_SplitServed ==
    /\ last.op = "malloc" /\ last.ret # NULL /\ last.arg = 17 /\ last.bumps = 0
    /\ Rd(mem, Hdr(last.ret)).size = 3

(* C2: a successful malloc(n) leaves size = units(n) in the header before  *)
(* the returned pointer, and the size - 1 payload units cover n bytes of   *)
(* memory obtained from the platform.                                      *)
C2_SizeAndCapacity ==
    (last.op = "malloc" /\ last.ret # NULL) =>
        LET sz == Rd(mem, Hdr(last.ret)).size IN
        /\ sz = Units(last.arg)
        /\ (sz - 1) * HEADER_SIZE >= last.arg
        /\ \A a \in Range(last.ret, sz - 1) : InPlatformMemory(a)

WrapEdges == {x \in Nodes : x >= Rd(mem, x).next}
C4_CircularSorted ==
    Initialized =>
        /\ \A x \in Nodes : x \in Reach(mem, Rd(mem, x).next, {})
        /\ base \in Nodes
        /\ Cardinality(WrapEdges) <= 1

(* no node ends where its successor begins (a lone node is its own        *)
(* successor and forms no pair)                                            *)
NoAdjacentPair(m, fl) ==
    \A x \in FreeNodes(m, fl) :
        Rd(m, x).next # x => PtrAdd(x, Rd(m, x).size) # Rd(m, x).next

(* C5: in every reachable state no node of the free list, the sentinel     *)
(* included, ends where its successor on the list begins.                  *)
C5_NoAdjacency == NoAdjacentPair(mem, freelist)

(* C6: once initialized the sentinel is on the list with size 0 and is     *)
(* never handed out.                                                       *)
C6_SentinelLive ==
    Initialized =>
        /\ base \in Nodes
        /\ Rd(mem, base).size = 0
        /\ PtrAdd(base, 1) \notin live

(* C7: the platform allocator is called only while no free-list node has   *)
(* size >= units(n).                                                       *)
C7_GrowthOnlyWhenNeeded == ~last.fitAtBump

(* C8: a malloc that returns null after the platform refused a growth      *)
(* request leaves the list and the live allocations as they were.          *)
C8_FailedGrowthKeepsList ==
    [][(Initialized /\ last'.op = "malloc" /\ last'.ret = NULL /\ last'.bumps > 0
        /\ status' = "ok")
       => (mem' = mem /\ freelist' = freelist /\ live' = live)]_vars

RunCovered ==
    \E x \in Nodes : x <= run.lo /\ PtrAdd(x, Rd(mem, x).size) >= run.hi
C10_RunCoalesces ==
    [][(run'.lo # NULL /\ run' # run)
       => /\ NoAdjacentPair(mem, freelist) => NoAdjacentPair(mem', freelist')
          /\ run'.left = 0 => RunCovered']_vars

W11_FreeNullOnPopulatedList ==
    /\ last.op = "free" /\ last.arg = NULL
    /\ Cardinality(Nodes) >= 3 /\ freelist # base /\ live # {}

(* C11: free(null) changes nothing: the nodes of the free list, their      *)
(* sizes and links, the head cursor and the live blocks are the same       *)
(* before and after the call.                                              *)
C11_FreeNullNoOp ==
    [][(last'.op = "free" /\ last'.arg = NULL)
       => (mem' = mem /\ freelist' = freelist /\ live' = live
           /\ mapped' = mapped /\ status' = status /\ MAX_RAM' = MAX_RAM)]_vars

(* C16: align_up(v, A) is the smallest multiple of A that is >= v; when    *)
(* v + A - 1 does not fit the machine word the result is the word maximum  *)
(* rounded down to A, never a wrapped-around value.                        *)
C16_AlignUpSaturates ==
    calc.op = "align_up" =>
        LET v == calc.value
            A == calc.alignment
            r == calc.out
        IN  IF v + A - 1 <= SIZE_MAX
            THEN r % A = 0 /\ r >= v /\ r - v < A
            ELSE r = SIZE_MAX - (SIZE_MAX % A)

W19_WordMaxIsNoPower ==
    calc.op = "is_power_of_two" /\ calc.value = SIZE_MAX /\ calc.out = 0

(* C19: is_power_of_two(v) is true exactly for the words with a single bit *)
(* set; it is false for 0 and for the word maximum.                        *)
C19_PowerOfTwo ==
    calc.op = "is_power_of_two" =>
        /\ calc.out \in {0, 1}
        /\ (calc.out = 1) <=> (\E k \in 0 .. (WordBits - 1) : calc.value = 2 ^ k)

(* C20: unit_count(v, size, A) is ceil(align_up(v, A) / size), the least k *)
(* with k * size >= align_up(v, A).                                        *)
C20_UnitCount ==
    calc.op = "object_count" =>
        LET a == memory_align_up(calc.value, calc.alignment)
        IN  /\ calc.out = CeilDiv(a, calc.size)
            /\ calc.out * calc.size >= a
            /\ calc.out > 0 => (calc.out - 1) * calc.size < a

DocNodes == IF doc.head = NULL THEN {} ELSE Reach(doc.mem, doc.head, {})
FreshList(d) ==
    /\ d.base # NULL /\ d.head = d.base
    /\ Rd(d.mem, d.base) = [next |-> d.base, size |-> 0]

W12_InitializeOnPopulatedList ==
    /\ doc.last.op = "initialize" /\ doc.last.was /\ doc.last.ret = 1
    /\ doc.head # doc.base /\ Cardinality(DocNodes) >= 2 /\ doc.live # {}

(* C12: initialize on an initialized allocator returns success and changes *)
(* nothing: same sentinel, same head cursor, same links and sizes, and no  *)
(* further allocation from the platform.                                   *)
C12_InitializeIdempotent ==
    [][(doc.base # NULL /\ doc'.last.op = "initialize" /\ doc'.nops # doc.nops)
       => /\ doc'.last.ret = 1
          /\ doc'.base = doc.base /\ doc'.head = doc.head
          /\ doc'.mem = doc.mem /\ doc'.regions = doc.regions
          /\ doc'.live = doc.live /\ doc'.status = doc.status]_vars

(* C13: terminate on an uninitialized allocator returns failure and        *)
(* changes nothing; on an initialized one it returns success and leaves    *)
(* sentinel and head null, and an initialize that follows (the platform    *)
(* granting the sentinel) yields the one-node list.                        *)
C13_TerminateLifecycle ==
    [][/\ (doc.base = NULL /\ doc'.last.op = "terminate" /\ doc'.nops # doc.nops)
          => /\ doc'.last.ret = 0
             /\ doc'.base = NULL /\ doc'.head = NULL
             /\ doc'.regions = doc.regions /\ doc'.mem = doc.mem
             /\ doc'.live = doc.live /\ doc'.status = doc.status
       /\ (doc.base # NULL /\ doc'.last.op = "terminate" /\ doc'.nops # doc.nops)
          => /\ doc'.last.ret = 1 /\ doc'.status = "ok"
             /\ doc'.base = NULL /\ doc'.head = NULL
       /\ (doc.last.op = "terminate" /\ doc.last.ret = 1
           /\ doc'.last.op = "initialize" /\ ~doc'.last.refused)
          => doc'.last.ret = 1 /\ FreshList(doc')]_vars

(* C14: after a successful terminate the allocator holds no memory of the  *)
(* platform: the sentinel and every block obtained for heap growth have    *)
(* been given back.                                                        *)
C14_TerminateReleasesAll ==
    (doc.last.op = "terminate" /\ doc.last.ret = 1) => doc.regions = {}

W15_RetryAfterRefusal ==
    /\ doc.last.op = "initialize" /\ doc.last.retry /\ doc.last.ret = 1
    /\ FreshList(doc)

(* C15: an initialize to which the platform refuses the sentinel returns   *)
(* failure and leaves sentinel and head null; a later initialize to which  *)
(* the platform grants it returns success and yields the one-node list.    *)
C15_FailedInitializeRetry ==
    [][/\ (doc'.last.op = "initialize" /\ doc'.last.refused)
          => /\ doc'.last.ret = 0
             /\ doc'.base = NULL /\ doc'.head = NULL
             /\ doc'.regions = doc.regions /\ doc'.status = doc.status
       /\ (doc'.last.op = "initialize" /\ doc'.last.retry /\ ~doc'.last.refused
           /\ doc'.nops # doc.nops)
          => doc'.last.ret = 1 /\ FreshList(doc')]_vars

(* the physical RAM system_max_ram starts from: pages times page size,     *)
(* or the fallback constant when the platform reports no page count        *)
RamTotal(pages, page_size) ==
    IF pages <= 0 \/ page_size <= 0 THEN DSA_FALLBACK_MAX_RAM
    ELSE pages * page_size

Max(a, b) == IF a >= b THEN a ELSE b

(* C21: for every amount of physical RAM that fits the word, and for the   *)
(* fallback constant, the allocation ceiling is max(total - RESERVE,       *)
(* FLOOR): never below FLOOR, also for totals between RESERVE and          *)
(* RESERVE + FLOOR.                                                        *)
C21_CeilingIsMaxOfFloor ==
    (/\ calc.op = "system_max_ram"
     /\ RamTotal(calc.value, calc.alignment) <= SIZE_MAX)
    => calc.out = Max(RamTotal(calc.value, calc.alignment) - DSA_RAM_RESERVE,
                      MIN_MAX_RAM)

(* the alignment memory_aligned_alloc works with *)
Raised(alignment) == Max(alignment, SIZEOF_VOID_P)

(* the platform gave no block: it reported an error or stored null *)
PlatformFailed(l) == l.rc # 0 \/ l.given = NULL

(* C22: realloc(p, old_size, new_size, align) with p null is one of the    *)
(* outcomes of alloc(new_size, align); with p not null and new_size zero   *)
(* it releases p and returns null; otherwise, when the fresh allocation    *)
(* succeeds, it returns a new aligned block of new_size bytes whose first  *)
(* min(old_size, new_size) bytes are those of p, and p is released exactly *)
(* once.                                                                   *)
C22_Realloc ==
    [][LET l == blocks'.last
           ch == blocks.chunk
           ch2 == blocks'.chunk
           min_size == IF l.old_size < l.size THEN l.old_size ELSE l.size
       IN  l.op = "realloc" =>
           /\ l.ptr = NULL =>
                 \E o \in memory_aligned_alloc(ch, l.size, l.alignment) :
                    o.ret = l.ret /\ o.chunk = ch2 /\ l.freed = <<>>
           /\ (l.ptr # NULL /\ l.size = 0) =>
                 /\ l.ret = NULL
                 /\ l.freed = <<l.ptr>>
                 /\ ~ch2[l.ptr].live
                 /\ \A a \in Chunks \ {l.ptr} : ch2[a] = ch[a]
           /\ (l.ptr # NULL /\ l.size # 0 /\ l.ret # NULL) =>
                 /\ l.ret # l.ptr
                 /\ ~ch[l.ret].live /\ ch2[l.ret].live
                 /\ l.ret % Raised(l.alignment) = 0
                 /\ Len(ch2[l.ret].bytes) = l.size
                 /\ SubSeq(ch2[l.ret].bytes, 1, min_size)
                       = SubSeq(ch[l.ptr].bytes, 1, min_size)
                 /\ l.freed = <<l.ptr>>
                 /\ ~ch2[l.ptr].live
      ]_vars

(* a realloc that moved a block whose copied part holds a byte set to one *)
W22_MovedWithContents ==
    /\ blocks.last.op = "realloc"
    /\ blocks.last.ptr # NULL
    /\ blocks.last.ret # NULL
    /\ blocks.last.old_size = 2
    /\ blocks.last.size = 1
    /\ blocks.last.was = <<1, 0>>
    /\ blocks.chunk[blocks.last.ret].bytes = <<1>>

(* C23: when realloc is called with p not null and new_size > 0 and        *)
(* returns null, p has not been released and its contents are unchanged.   *)
C23_FailedReallocKeepsBlock ==
    (/\ blocks.last.op = "realloc"
     /\ blocks.last.ptr # NULL
     /\ blocks.last.size > 0
     /\ blocks.last.ret = NULL)
    => /\ blocks.chunk[blocks.last.ptr].live
       /\ blocks.chunk[blocks.last.ptr].bytes = blocks.last.was
       /\ blocks.last.freed = <<>>

(* the platform refused the fresh block of a realloc of a two-byte block *)
W23_PlatformRefused ==
    /\ blocks.last.op = "realloc"
    /\ blocks.last.ptr # NULL
    /\ blocks.last.size > 0
    /\ blocks.last.ret = NULL
    /\ blocks.last.calls = 1
    /\ blocks.last.rc = ENOMEM
    /\ blocks.last.was = <<0, 1>>

C25_CallocCoversProduct ==
    LET l == blocks.last IN
    (l.op = "calloc" /\ l.ret # NULL) =>
       /\ Len(blocks.chunk[l.ret].bytes) >= l.n * l.size
       /\ \A i \in 1 .. Len(blocks.chunk[l.ret].bytes) :
             blocks.chunk[l.ret].bytes[i] = 0

(* the place the free-list design gives block b: after node c when b lies  *)
(* between c and its successor, or on the wrap edge                        *)
InsertCondition(m, c, b) ==
    LET nx == Rd(m, c).next
    IN  (c < b /\ b < nx) \/ (c >= nx /\ (b > c \/ b < nx))

(* C27: free(p) with header b links b directly after the one node c of the *)
(* free list with (c < b and b < c.next) or (c >= c.next and (b > c or     *)
(* b < c.next)), wherever the head cursor was, and leaves the head cursor  *)
(* at c.                                                                   *)
C27_FreeLinksAfterOrderedNode ==
    [][(last'.op = "free" /\ last'.arg # NULL /\ status' = "ok")
       => LET b == Hdr(last'.arg)
              c == freelist'
          IN  /\ c \in Nodes
              /\ InsertCondition(mem, c, b)
              /\ \A x \in Nodes : InsertCondition(mem, x, b) => x = c
              /\ Rd(mem', c).next = b \/ PtrAdd(c, Rd(mem, c).size) = b
      ]_vars

SentinelApart == base % PAGE_SIZE # 0

RECURSIVE FirstInOrder(_, _, _, _, _)
FirstInOrder(m, fl, x, nunits, fuel) ==
    IF fuel = 0 THEN NULL
    ELSE IF Rd(m, x).size >= nunits THEN x
    ELSE IF x = fl THEN NULL
    ELSE FirstInOrder(m, fl, Rd(m, x).next, nunits, fuel - 1)

(* C29: malloc allocates from the first node, in list order from head.next *)
(* to the head itself, whose size >= units, and the platform is asked for  *)
(* memory only after every node of the list has been examined.             *)
C29_FirstFitThenGrowth ==
    [][(last'.op = "malloc" /\ status' = "ok")
       => /\ (last'.ret # NULL /\ last'.bumps = 0)
                => last'.fit.block = FirstInOrder(mem, freelist,
                                                  Rd(mem, freelist).next,
                                                  last'.nunits, Fuel)
          /\ ~last'.skipped
      ]_vars

(* C30: a block larger than units keeps its address and its links, loses   *)
(* exactly units (at least one unit stays), and the payload returned       *)
(* starts one unit after block + (old size - units), under a header of     *)
(* size units; a block of exactly units is unlinked and its predecessor    *)
(* points to its former successor.                                         *)
C30_CarveFromTail ==
    (last.op = "malloc" /\ last.ret # NULL /\ status = "ok") =>
        LET f == last.fit
            u == last.nunits
        IN  /\ f.preds # {}
            /\ IF f.size > u
               THEN /\ f.block \in Nodes
                    /\ Rd(mem, f.block).size = f.size - u
                    /\ Rd(mem, f.block).size >= 1
                    /\ Rd(mem, f.block).next = f.next
                    /\ \A x \in f.preds : Rd(mem, x).next = f.block
                    /\ last.ret = PtrAdd(PtrAdd(f.block, f.size - u), 1)
                    /\ Rd(mem, Hdr(last.ret)).size = u
               ELSE /\ f.block \notin Nodes
                    /\ \A x \in f.preds : Rd(mem, x).next = f.next

(* C26: on the static arena, whenever no allocation is outstanding,        *)
(* malloc(max_alloc()) returns a pointer that is not null and is aligned,  *)
(* and malloc(max_alloc() + 1) returns null.                               *)
C26_MaxAllocIsTheLimit ==
    (last.op = "malloc" /\ status = "ok" /\ live \subseteq {last.ret}) =>
        /\ last.arg = allocator_freelist_max_alloc
              => (last.ret # NULL /\ last.ret % MEMORY_ALIGNMENT = 0)
        /\ last.arg = allocator_freelist_max_alloc + 1 => last.ret = NULL

(* C31: a malloc call asks the platform for memory at most once, and a     *)
(* call in which a growth succeeded does not return null.                  *)
C31_OneGrowthPerCall ==
    [][(last'.op = "malloc" /\ status' = "ok")
       => /\ last'.bumps <= 1
          /\ mapped' # mapped => last'.ret # NULL
      ]_vars

(* C32: every call to malloc and to free terminates: neither the first-fit *)
(* loop nor the insertion-point loop circles the list forever.             *)
C32_CallsTerminate == status # "hang"

(* the sizes, in units, of the headers at the addresses of S, added up *)
RECURSIVE SumOfSizes(_, _)
SumOfSizes(m, S) ==
    IF S = {} THEN 0
    ELSE LET x == CHOOSE y \in S : TRUE
         IN  Rd(m, x).size + SumOfSizes(m, S \ {x})

(* C33: the sizes of the free-list nodes and of the live blocks add up to  *)
(* the number of units obtained from the platform by heap growth.          *)
C33_UnitAccounting ==
    status = "ok" =>
        SumOfSizes(mem, Nodes) + SumOfSizes(mem, {Hdr(p) : p \in live})
            = Cardinality(mapped) * PageUnits

(* C34: no two nodes of the free list, consecutive on the list or not, are *)
(* adjacent in memory (x + x.size = y).                                    *)
C34_NoAdjacentNodesAnywhere ==
    status = "ok" =>
        \A x, y \in Nodes : x # y => PtrAdd(x, Rd(mem, x).size) # y

(* C35: after every call the head cursor is a node linked on the free      *)
(* list, reachable from the sentinel, and not a block that is handed out   *)
(* or lies inside another free block.                                      *)
C35_HeadOnList ==
    (Initialized /\ status = "ok") =>
        /\ freelist \in FreeNodes(mem, base)
        /\ PtrAdd(freelist, 1) \notin live
        /\ \A x \in Nodes \ {freelist} : freelist \notin NodeRange(x)


(* C36: every address terminate passes to the platform free (the nodes its *)
(* walk visits from the sentinel's successor, then the sentinel) is the   *)
(* start of a platform allocation that is still held: never a header made *)
(* by splitting inside a platform block. The addresses are distinct, so   *)
(* none is released twice.                                                *)
C36_TerminateFreesAllocations ==
    [][(doc.base # NULL /\ doc'.last.op = "terminate" /\ doc'.nops # doc.nops)
          => \A x \in Reach(doc.mem, doc.base, {}) \ {NULL} :
                \E r \in doc.regions : r.addr = x]_vars


(* C37: realloc(p, old_size, new_size, align) with p not null and new_size *)
(* positive accepts the alignments alloc accepts: it consults the platform *)
(* exactly when max(align, sizeof(void* )) is a power of two, an align     *)
(* below sizeof(void* ) such as 0 included, and then returns null only     *)
(* when the platform gives no block.                                       *)
C37_ReallocAcceptsAllocAlignments ==
    LET l == blocks.last IN
    (l.op = "realloc" /\ l.ptr # NULL /\ l.size > 0) =>
       /\ memory_is_power_of_two(Raised(l.alignment)) <=> l.calls = 1
       /\ memory_is_power_of_two(Raised(l.alignment)) =>
             (l.ret = NULL <=> PlatformFailed(l))


(***************************************************************************)
(* allocator/arena.c: the linear arena. One arena is constructed by        *)
(* arena_create; the caller holds at most one checkpoint value.            *)
(***************************************************************************)

(* capacities asked of arena_create and the addresses the platform may    *)
(* give the buffer (aligned to sizeof(void* ))                             *)
ArenaCapacities == {16, 24}
ArenaBuffers == {64, 72}
ArenaSizes == {0, 1, 8, 9, Word - 8, SIZE_MAX}
ArenaAlignments == {1, 8, 16}

arena_create(capacity, buffer) ==
    [NoArena EXCEPT !.buffer = buffer, !.capacity = capacity,
                    !.offset = 0, !.last_offset = 0]

(* arena_alloc: the outcome [st, ret, padding] *)
arena_alloc(a, size, alignment) ==
    LET current == (a.buffer + a.offset) % Word
        padding == memory_padding_needed(current, alignment)
    IN  IF (a.offset + padding + size) % Word > a.capacity
        THEN [st |-> a, ret |-> NULL, padding |-> padding]
        ELSE LET offset == (a.offset + padding) % Word
             IN  [st |-> [a EXCEPT !.offset = (offset + size) % Word],
                  ret |-> (a.buffer + offset) % Word,
                  padding |-> padding]

arena_reset(a) == [a EXCEPT !.offset = 0, !.last_offset = 0]

arena_checkpoint_begin(a) ==
    [held |-> TRUE, offset |-> a.offset, last_offset |-> a.last_offset]

arena_checkpoint_end(a, checkpoint) ==
    [a EXCEPT !.offset = checkpoint.offset,
              !.last_offset = checkpoint.last_offset]

arena_remaining(a) == (a.capacity - a.offset) % Word

ArenaCalled(op, ret) == [NoArenaCall EXCEPT !.op = op, !.ret = ret]

ArenaAlloc ==
    /\ \E size \in ArenaSizes, alignment \in ArenaAlignments :
          LET o == arena_alloc(arena, size, alignment)
          IN  arena' = [o.st EXCEPT !.last =
                           [op |-> "alloc", size |-> size,
                            alignment |-> alignment, ret |-> o.ret,
                            was |-> arena.offset, padding |-> o.padding]]
    /\ UNCHANGED <<KnrVars, calc, doc, heap, blocks, pool>>

ArenaReset ==
    /\ arena' = [arena_reset(arena) EXCEPT !.last = ArenaCalled("reset", 0)]
    /\ UNCHANGED <<KnrVars, calc, doc, heap, blocks, pool>>

ArenaCheckpointBegin ==
    /\ arena' = [arena EXCEPT !.checkpoint = arena_checkpoint_begin(arena),
                              !.last = ArenaCalled("checkpoint_begin", 0)]
    /\ UNCHANGED <<KnrVars, calc, doc, heap, blocks, pool>>

ArenaCheckpointEnd ==
    /\ arena.checkpoint.held
    /\ arena' = [arena_checkpoint_end(arena, arena.checkpoint)
                    EXCEPT !.last = ArenaCalled("checkpoint_end", 0)]
    /\ UNCHANGED <<KnrVars, calc, doc, heap, blocks, pool>>

ArenaRemaining ==
    /\ arena' = [arena EXCEPT
                    !.last = ArenaCalled("remaining", arena_remaining(arena))]
    /\ UNCHANGED <<KnrVars, calc, doc, heap, blocks, pool>>

InitArena ==
    /\ KnrAtRest
    /\ calc = NoCall
    /\ doc = NoList
    /\ heap = NoHeap
    /\ blocks = NoBlocks
    /\ pool = NoPool
    /\ \E capacity \in ArenaCapacities, buffer \in ArenaBuffers :
          arena = arena_create(capacity, buffer)

NextArena ==
    \/ ArenaAlloc
    \/ ArenaReset
    \/ ArenaCheckpointBegin
    \/ ArenaCheckpointEnd
    \/ ArenaRemaining

SpecArena == InitArena /\ [][NextArena]_vars

(* C38: arena_alloc returns null whenever offset + padding + size, added   *)
(* up without wrap-around, exceeds the capacity, and otherwise returns a   *)
(* pointer aligned to the alignment whose size bytes lie in the buffer;    *)
(* in every state reached by alloc, reset and checkpoint calls the offset  *)
(* is at most the capacity.                                                *)
C38_ArenaAllocBounds ==
    LET l == arena.last
        total == l.was + l.padding + l.size
    IN  /\ arena.offset <= arena.capacity
        /\ l.op = "alloc" =>
              /\ total > arena.capacity => l.ret = NULL
              /\ total <= arena.capacity =>
                    /\ l.ret # NULL
                    /\ l.ret % l.alignment = 0
                    /\ arena.buffer <= l.ret
                    /\ l.ret + l.size <= arena.buffer + arena.capacity


(***************************************************************************)
(* allocator/pool.c (printed in page.c): the fixed-block pool. The words   *)
(* of the buffers hold the `next` pointers of the free list as absolute    *)
(* addresses; a buffer given back to the platform keeps its words, and a   *)
(* read of one of them is undefined.                                       *)
(***************************************************************************)

SIZEOF_FREELIST == 8
PoolCapacities == {40, 48}
PoolGrownCapacities == {48, 64}
PoolBlockSizes == {16, 24}
PoolAlignments == {8}
(* addresses the platform may give a buffer; the largest capacity fits     *)
(* between two of them                                                     *)
PoolBuffers == {128, 256}

PoolWord(w, a) == IF a \in DOMAIN w THEN w[a] ELSE 0

(* the words after `node->next = next` at address a *)
PoolStore(w, a, next) ==
    [x \in DOMAIN w \cup {a} |-> IF x = a THEN next ELSE w[x]]

(* the free-list build loop of pool_create and pool_realloc: blocks        *)
(* block .. count - 1 of the buffer are pushed in front of head            *)
RECURSIVE PoolLink(_, _, _)
PoolLink(pl, block, count) ==
    IF block >= count THEN pl
    ELSE LET address == (pl.buffer + block * pl.block_size) % Word
         IN  PoolLink([pl EXCEPT !.words = PoolStore(@, address, pl.head),
                                 !.head = address],
                      block + 1, count)

pool_create(capacity, size, alignment, buffer) ==
    LET block_size == memory_aligned_size(size, alignment)
        made == [NoPool EXCEPT !.buffer = buffer, !.capacity = capacity,
                               !.block_size = block_size,
                               !.block_count = capacity \div block_size,
                               !.head = NULL, !.status = "ok"]
    IN  PoolLink(made, 0, made.block_count)

(* is address a inside a buffer the platform has taken back? *)
PoolReleased(pl, a) ==
    \E r \in pl.freed : r.addr <= a /\ a < r.addr + r.capacity

(* the copy loop of pool_realloc: the words of the old buffer at their     *)
(* offsets in the new one                                                  *)
PoolCopy(w, from, to, capacity) ==
    LET moved == {a \in DOMAIN w : from <= a /\ a < from + capacity}
    IN  [x \in DOMAIN w \cup {to + (a - from) : a \in moved} |->
            IF x >= to /\ x < to + capacity /\ (from + (x - to)) \in moved
            THEN w[from + (x - to)]
            ELSE w[x]]

(* pool_realloc with the platform's answer new_buffer: [st, ret] *)
pool_realloc(pl, new_capacity, new_buffer) ==
    IF new_capacity <= pl.capacity THEN [st |-> pl, ret |-> FALSE]
    ELSE IF NULL = new_buffer THEN [st |-> pl, ret |-> FALSE]
    ELSE LET old_block_count == pl.block_count
             new_block_count == new_capacity \div pl.block_size
             copied == PoolCopy(pl.words, pl.buffer, new_buffer, pl.capacity)
             moved == [pl EXCEPT
                          !.words = copied,
                          !.freed = {r \in @ : r.addr # new_buffer}
                                    \cup {[addr |-> pl.buffer,
                                           capacity |-> pl.capacity]},
                          !.buffer = new_buffer,
                          !.capacity = new_capacity,
                          !.block_count = new_block_count,
                          !.grown = TRUE]
         IN  [st |-> PoolLink(moved, old_block_count, new_block_count),
              ret |-> TRUE]

(* pool_push: the outcomes [st, ret]; the read of head->next in a buffer   *)
(* that was given back either faults or finds the old word                 *)
pool_push(pl) ==
    IF NULL = pl.head THEN {[st |-> pl, ret |-> NULL]}
    ELSE LET node == pl.head
             popped == [st |-> [pl EXCEPT !.head = PoolWord(pl.words, node)],
                        ret |-> node]
         IN  IF PoolReleased(pl, node)
             THEN {popped, [st |-> [pl EXCEPT !.status = "crash"], ret |-> NULL]}
             ELSE {popped}

pool_owns(pl, address) ==
    LET start == pl.buffer
        end == (start + pl.capacity) % Word
    IN  /\ address >= start
        /\ address < end
        /\ ((address - start) % Word) % pl.block_size = 0

(* pool_pop: the assert on pool_owns aborts the call *)
pool_pop(pl, address) ==
    IF address = NULL \/ ~pool_owns(pl, address)
    THEN [pl EXCEPT !.status = "abort"]
    ELSE [pl EXCEPT !.words = PoolStore(@, address, pl.head),
                    !.head = address]

(* pool_remaining: the counts its walk may return, HANG when it has no    *)
(* end, FAULT when the read of a word in a buffer given back faults        *)
FAULT == HANG - 1
RECURSIVE PoolCount(_, _, _, _)
PoolCount(pl, node, count, fuel) ==
    IF NULL = node THEN {count}
    ELSE IF fuel = 0 THEN {HANG}
    ELSE (IF PoolReleased(pl, node) THEN {FAULT} ELSE {})
         \cup PoolCount(pl, PoolWord(pl.words, node), count + 1, fuel - 1)

pool_remaining(pl) == PoolCount(pl, pl.head, 0, 2 * Cardinality(DOMAIN pl.words))

PoolCalled(pl, op, arg, ret) ==
    [pl EXCEPT !.last = [op |-> op, arg |-> arg, ret |-> ret]]

PoolRealloc ==
    /\ pool.status = "ok"
    /\ \E new_capacity \in PoolGrownCapacities,
          new_buffer \in {NULL} \cup (PoolBuffers \ {pool.buffer}) :
          LET o == pool_realloc(pool, new_capacity, new_buffer)
          IN  pool' = PoolCalled(o.st, "realloc", new_capacity,
                                 IF o.ret THEN 1 ELSE 0)
    /\ UNCHANGED <<KnrVars, calc, doc, heap, blocks, arena>>

PoolPush ==
    /\ pool.status = "ok"
    /\ \E o \in pool_push(pool) :
          pool' = PoolCalled([o.st EXCEPT !.out = IF o.ret = NULL THEN @
                                                  ELSE @ \cup {o.ret}],
                             "push", 0, o.ret)
    /\ UNCHANGED <<KnrVars, calc, doc, heap, blocks, arena>>

PoolPop ==
    /\ pool.status = "ok"
    /\ \E address \in pool.out :
          pool' = PoolCalled([pool_pop(pool, address) EXCEPT
                                 !.out = @ \ {address}],
                             "pop", address, 0)
    /\ UNCHANGED <<KnrVars, calc, doc, heap, blocks, arena>>

PoolRemaining ==
    /\ pool.status = "ok"
    /\ \E count \in pool_remaining(pool) :
          pool' = PoolCalled([pool EXCEPT !.status =
                                 IF count = HANG THEN "hang"
                                 ELSE IF count = FAULT THEN "crash" ELSE @],
                             "remaining", 0, count)
    /\ UNCHANGED <<KnrVars, calc, doc, heap, blocks, arena>>

InitPool ==
    /\ KnrAtRest
    /\ calc = NoCall
    /\ doc = NoList
    /\ heap = NoHeap
    /\ blocks = NoBlocks
    /\ arena = NoArena
    /\ \E capacity \in PoolCapacities, size \in PoolBlockSizes,
          alignment \in PoolAlignments, buffer \in PoolBuffers :
          /\ memory_aligned_size(size, alignment) > SIZEOF_FREELIST
          /\ memory_aligned_size(size, alignment) < capacity
          /\ memory_aligned_size(size, alignment) % alignment = 0
          /\ pool = pool_create(capacity, size, alignment, buffer)

NextPool == PoolRealloc \/ PoolPush \/ PoolPop \/ PoolRemaining

SpecPool == InitPool /\ [][NextPool]_vars

(* the nodes of the pool's free list, as its words link them *)
RECURSIVE PoolNodes(_, _, _)
PoolNodes(w, node, seen) ==
    IF node = NULL \/ node \in seen THEN seen
    ELSE PoolNodes(w, PoolWord(w, node), seen \cup {node})

(* C39: after a successful pool_realloc every node of the free list lies   *)
(* in the current buffer on a block boundary (pool_owns holds for it), a   *)
(* block that pool_push returns lies in the current buffer, and the free   *)
(* list has as many nodes as there are blocks not handed out.              *)
C39_PoolListInCurrentBuffer ==
    (pool.grown /\ pool.status = "ok") =>
        LET nodes == PoolNodes(pool.words, pool.head, {}) IN
        /\ \A x \in nodes : pool_owns(pool, x)
        /\ (pool.last.op = "push" /\ pool.last.ret # NULL)
              => pool_owns(pool, pool.last.ret)
        /\ Cardinality(nodes) = pool.block_count - Cardinality(pool.out)

====
